---- MODULE Spec2Model ----
(***************************************************************************)
(* jm::circular_buffer<T, N> (include/circular_buffer.hpp): a fixed        *)
(* capacity ring buffer with head/tail/size bookkeeping over an array of   *)
(* N cells, and its bidirectional iterator.                                *)
(*                                                                         *)
(* An object is a record [id, state, head, tail, size, buffer, ub, live,   *)
(* fault]:                                                                 *)
(*   head, tail, size  the fields _head, _tail, _size (size_type, here     *)
(*                     arithmetic modulo SizeMod);                         *)
(*   buffer            the array _buffer[N], a function 0..N-1 -> Values.  *)
(*                     A cell outside the occupied range holds an          *)
(*                     arbitrary value (the memory is never initialised),  *)
(*                     so every content is drawn nondeterministically;     *)
(*   state             "alive", "thrown" (the constructor threw) or "none" *)
(*                     (no such object);                                   *)
(*   ub                TRUE once the object wrote or destroyed a cell      *)
(*                     outside _buffer[0..N-1]: nothing is known of the    *)
(*                     program after that, so no operation continues it.   *)
(*   live              the cells that hold an element whose lifetime has    *)
(*                     begun (by placement new or by a write of a value)   *)
(*                     and has not been ended by destroy();                *)
(*   fault             what the current call did against the lifetime of   *)
(*                     an element: "construct_over_live" (placement new on *)
(*                     a cell of live), "destroy_not_live" (destroy() of a *)
(*                     cell that is not in live).                          *)
(* A read outside the array yields the arbitrary value wild.               *)
(***************************************************************************)
EXTENDS Integers, Sequences, FiniteSets, TLC

\* Largest capacity N explored (N is a template parameter; every N in 1..MaxN).
MaxN == 4
\* Constructors are given up to N + Over initial elements.
Over == 1
\* size_type arithmetic wraps modulo SizeMod (2^64 in the build; any modulus
\* above MaxN + Over + 1 wraps the same way for the values that occur).
SizeMod == 256
\* The element values of T.
Values == {1, 2}

Capacities == 1..MaxN

\* N      the capacity (template parameter), fixed at construction
\* wild   what a read outside _buffer[0..N-1] finds
\* cb     the buffer object the program works on
\* other  a second object, made from cb by copy or move
\* op, arg   the last operation and its argument
\* deque  a reference bounded deque driven by the same operations
\* npush  the number of push_back/push_front calls, while the history is the
\*        default constructor followed by at most N such calls; N + 1 after
\* rec    whether the history of cb (op, arg, deque, npush) is recorded; the
\*        specification of copy and move does not record it
\* track  whether the lifetimes of the elements (live, fault) are recorded
VARIABLES N, wild, cb, other, op, arg, deque, npush, rec, track

vars == <<N, wild, cb, other, op, arg, deque, npush, rec, track>>

Cells == 0..(N - 1)

\* size_type arithmetic
SzAdd(a, b) == (a + b) % SizeMod
SzSub(a, b) == (a + SizeMod - b) % SizeMod

increment(value) == SzAdd(value, 1) % N

decrement(value) == SzAdd(value, SzSub(N, 1)) % N

\* _buffer[idx]._value read: inside the array the cell, outside it whatever
\* lies there.
Rd(b, idx) == IF idx \in Cells THEN b.buffer[idx] ELSE wild

\* _buffer[idx]._value = value, _buffer[idx] = storage_type(value): the cell
\* holds an element from now on
Wr(b, idx, value) ==
    IF idx \in Cells
    THEN [b EXCEPT !.buffer[idx] = value,
                   !.live = IF track THEN b.live \cup {idx} ELSE b.live]
    ELSE [b EXCEPT !.ub = TRUE]

\* new (&_buffer[idx]._value) value_type(args...)
construct(b, idx, value) ==
    LET b1 == IF track /\ idx \in b.live
              THEN [b EXCEPT !.fault = b.fault \cup {"construct_over_live"}]
              ELSE b
    IN  Wr(b1, idx, value)

\* destroy(idx): ends the lifetime of the element; the cell's content is
\* whatever the destructor of T leaves there (junk).
destroy(b, idx, junk) ==
    LET b1 == IF track /\ idx \notin b.live
              THEN [b EXCEPT !.fault = b.fault \cup {"destroy_not_live"}]
              ELSE b
    IN  IF idx \in Cells
        THEN [b1 EXCEPT !.buffer[idx] = junk, !.live = b.live \ {idx}]
        ELSE [b1 EXCEPT !.ub = TRUE]

NoObject ==
    [id |-> "none", state |-> "none", head |-> 0, tail |-> 0, size |-> 0,
     buffer |-> <<>>, ub |-> FALSE, live |-> {}, fault |-> {}]

\* circular_buffer()
ctor_default(id, mem) ==
    [id |-> id, state |-> "alive", head |-> 1, tail |-> 0, size |-> 0,
     buffer |-> mem, ub |-> FALSE, live |-> {}, fault |-> {}]

RECURSIVE FillCount(_, _, _, _)
FillCount(b, i, count, value) ==
    IF i < count THEN FillCount(Wr(b, i, value), i + 1, count, value) ELSE b

\* circular_buffer(size_type count, const T& value)
ctor_count(id, mem, count, value) ==
    LET b0 == [id |-> id, state |-> "alive", head |-> 0,
               tail |-> SzSub(count, 1), size |-> count,
               buffer |-> mem, ub |-> FALSE, live |-> {}, fault |-> {}]
    IN  IF b0.size > N THEN [b0 EXCEPT !.state = "thrown"]
        ELSE IF b0.size # 0 THEN FillCount(b0, 0, count, value)
        ELSE [b0 EXCEPT !.head = 1]

\* RangeLoop with the capacity test off by one (_size > N)
RECURSIVE RangeLoopLate(_, _)
RangeLoopLate(b, rest) ==
    IF rest = <<>> THEN b
    ELSE IF b.size > N THEN [b EXCEPT !.state = "thrown"]
    ELSE RangeLoopLate([Wr(b, b.size, Head(rest))
                           EXCEPT !.size = SzAdd(b.size, 1)], Tail(rest))

RECURSIVE RangeLoop(_, _)
RangeLoop(b, rest) ==
    IF rest = <<>> THEN b
    ELSE IF b.size >= N THEN [b EXCEPT !.state = "thrown"]
    ELSE RangeLoop([Wr(b, b.size, Head(rest)) EXCEPT !.size = SzAdd(b.size, 1)],
                   Tail(rest))

\* the range constructor without _tail = _size - 1
ctor_range_notail(id, mem, rng) ==
    LET b0 == [id |-> id, state |-> "alive", head |-> 0, tail |-> 0, size |-> 0,
               buffer |-> mem, ub |-> FALSE, live |-> {}, fault |-> {}]
    IN  IF rng # <<>> THEN RangeLoop(b0, rng) ELSE [b0 EXCEPT !.head = 1]

\* circular_buffer(InputIt first, InputIt last)
ctor_range(id, mem, rng) ==
    LET b0 == [id |-> id, state |-> "alive", head |-> 0, tail |-> 0, size |-> 0,
               buffer |-> mem, ub |-> FALSE, live |-> {}, fault |-> {}]
    IN  IF rng # <<>>
        THEN LET b1 == RangeLoop(b0, rng)
             IN  IF b1.state = "thrown" THEN b1
                 ELSE [b1 EXCEPT !.tail = SzSub(b1.size, 1)]
        ELSE [b0 EXCEPT !.head = 1]

RECURSIVE InitLoop(_, _, _)
InitLoop(b, i, init) ==
    IF i > Len(init) THEN b
    ELSE InitLoop(Wr(b, i - 1, init[i]), i + 1, init)

\* circular_buffer(std::initializer_list<T> init)
ctor_init(id, mem, init) ==
    LET b0 == [id |-> id, state |-> "alive", head |-> 0,
               tail |-> SzSub(Len(init), 1), size |-> Len(init),
               buffer |-> mem, ub |-> FALSE, live |-> {}, fault |-> {}]
    IN  IF b0.size > N THEN [b0 EXCEPT !.state = "thrown"]
        ELSE InitLoop(IF b0.size = 0 THEN [b0 EXCEPT !.head = 1] ELSE b0, 1, init)

\* capacity
empty(b) == b.size = 0
full(b) == b.size = N
size(b) == b.size
max_size(b) == N

\* element access
front(b) == Rd(b, b.head)
back(b) == Rd(b, b.tail)

\* push_back without the --_size of the full branch
push_back_grow(b, value) ==
    LET isfull == b.size = N
        new_tail == IF isfull THEN b.head ELSE increment(b.tail)
        b1 == IF isfull THEN [b EXCEPT !.head = increment(b.head)] ELSE b
        b2 == Wr(b1, new_tail, value)
    IN  [b2 EXCEPT !.tail = new_tail, !.size = SzAdd(b2.size, 1)]

\* push_back(const value_type&) and push_back(value_type&&)
push_back(b, value) ==
    LET isfull == b.size = N
        new_tail == IF isfull THEN b.head ELSE increment(b.tail)
        b1 == IF isfull
              THEN [b EXCEPT !.head = increment(b.head), !.size = SzSub(b.size, 1)]
              ELSE b
        b2 == Wr(b1, new_tail, value)
    IN  [b2 EXCEPT !.tail = new_tail, !.size = SzAdd(b2.size, 1)]

\* push_front(const value_type&) and push_front(value_type&&)
push_front(b, value) ==
    LET isfull == b.size = N
        new_head == IF isfull THEN b.tail ELSE decrement(b.head)
        b1 == IF isfull
              THEN [b EXCEPT !.tail = decrement(b.tail), !.size = SzSub(b.size, 1)]
              ELSE b
        b2 == Wr(b1, new_head, value)
    IN  [b2 EXCEPT !.head = new_head, !.size = SzAdd(b2.size, 1)]

\* emplace_back(Args&&...)
emplace_back(b, value, junk) ==
    LET isfull == b.size = N
        new_tail == IF isfull THEN b.head ELSE increment(b.tail)
        b1 == IF isfull
              THEN destroy([b EXCEPT !.head = increment(b.head),
                                     !.size = SzSub(b.size, 1)], new_tail, junk)
              ELSE b
        b2 == construct(b1, new_tail, value)
    IN  [b2 EXCEPT !.tail = new_tail, !.size = SzAdd(b2.size, 1)]

\* emplace_front(Args&&...)
emplace_front(b, value, junk) ==
    LET isfull == b.size = N
        new_head == IF isfull THEN b.tail ELSE decrement(b.head)
        b1 == IF isfull
              THEN destroy([b EXCEPT !.tail = decrement(b.tail),
                                     !.size = SzSub(b.size, 1)], new_head, junk)
              ELSE b
        b2 == construct(b1, new_head, value)
    IN  [b2 EXCEPT !.head = new_head, !.size = SzAdd(b2.size, 1)]

\* pop_back without the retreat of _tail
pop_back_stay(b, junk) ==
    LET old_tail == b.tail
    IN  destroy([b EXCEPT !.size = SzSub(b.size, 1)], old_tail, junk)

\* pop_back()
pop_back(b, junk) ==
    LET old_tail == b.tail
    IN  destroy([b EXCEPT !.size = SzSub(b.size, 1), !.tail = decrement(b.tail)],
                old_tail, junk)

\* pop_front without the advance of _head
pop_front_stay(b, junk) ==
    LET old_head == b.head
    IN  destroy([b EXCEPT !.size = SzSub(b.size, 1)], old_head, junk)

\* pop_front()
pop_front(b, junk) ==
    LET old_head == b.head
    IN  destroy([b EXCEPT !.size = SzSub(b.size, 1), !.head = increment(b.head)],
                old_head, junk)

\* the junk a destructor leaves in cell idx, out of a choice per cell
JunkAt(jf, idx) == IF idx \in DOMAIN jf THEN jf[idx] ELSE 1

RECURSIVE ClearLoop(_, _)
ClearLoop(b, jf) ==
    IF b.size # 0 THEN ClearLoop(pop_back(b, JunkAt(jf, b.tail)), jf) ELSE b

\* clear() without the reset of _head and _tail
ClearNoReset(b, jf) == ClearLoop(b, jf)

\* clear()
clear(b, jf) == [ClearLoop(b, jf) EXCEPT !.head = 1, !.tail = 0]

\* circular_buffer_iterator(S* buf, std::size_t pos, std::size_t left_in_forward)
Iter(buf, pos, left) == [buf |-> buf, pos |-> pos, left_in_forward |-> left]

\* circular_buffer_iterator::operator*
Deref(b, it) == Rd(b, it.pos)

\* circular_buffer_iterator::operator++
IterInc(it) ==
    [it EXCEPT !.pos = increment(it.pos),
               !.left_in_forward = SzSub(it.left_in_forward, 1)]

\* circular_buffer_iterator::operator--
IterDec(it) ==
    [it EXCEPT !.pos = decrement(it.pos),
               !.left_in_forward = SzAdd(it.left_in_forward, 1)]

\* operator== comparing the storage and the position only
IterEqPos(a, b) == b.pos = a.pos /\ b.buf = a.buf

\* circular_buffer_iterator::operator==
IterEq(a, b) ==
    b.pos = a.pos /\ b.left_in_forward = a.left_in_forward /\ b.buf = a.buf

\* end(), cend()
end(b) == Iter(b.id, increment(b.tail), 0)

\* begin(), cbegin()
begin(b) == IF b.size = 0 THEN end(b) ELSE Iter(b.id, b.head, b.size)

\* std::reverse_iterator<iterator>: holds the base iterator current;
\* operator* is *--tmp of a copy, operator++ is --current, operator== compares
\* the bases.
RevIter(it) == [current |-> it]
RevDeref(b, r) == Deref(b, IterDec(r.current))
RevInc(r) == [current |-> IterDec(r.current)]
RevEq(r, s) == IterEq(r.current, s.current)

\* rend(), crend()
rend(b) == RevIter(Iter(b.id, increment(b.tail), 0))

\* rbegin(), crbegin()
rbegin(b) == IF b.size = 0 THEN rend(b) ELSE RevIter(Iter(b.id, b.head, b.size))

\* for (it = begin(); it != end(); ++it) collect *it. A loop that has not met
\* end() after N + 1 steps is cut there: its result is longer than any buffer.
RECURSIVE WalkFrom(_, _, _)
WalkFrom(b, it, fuel) ==
    IF IterEq(it, end(b)) \/ fuel = 0 THEN <<>>
    ELSE <<Deref(b, it)>> \o WalkFrom(b, IterInc(it), fuel - 1)

Walk(b) == WalkFrom(b, begin(b), N + 1)

\* the positions visited by the same loop
RECURSIVE WalkCellsFrom(_, _, _)
WalkCellsFrom(b, it, fuel) ==
    IF IterEq(it, end(b)) \/ fuel = 0 THEN <<>>
    ELSE <<it.pos>> \o WalkCellsFrom(b, IterInc(it), fuel - 1)

WalkCells(b) == WalkCellsFrom(b, begin(b), N + 1)

\* for (r = rbegin(); r != rend(); ++r) collect *r, cut after N + 1 steps
RECURSIVE RevWalkFrom(_, _, _)
RevWalkFrom(b, r, fuel) ==
    IF RevEq(r, rend(b)) \/ fuel = 0 THEN <<>>
    ELSE <<RevDeref(b, r)>> \o RevWalkFrom(b, RevInc(r), fuel - 1)

RevWalk(b) == RevWalkFrom(b, rbegin(b), N + 1)

\* the cells the reverse loop dereferences
RECURSIVE RevWalkCellsFrom(_, _, _)
RevWalkCellsFrom(b, r, fuel) ==
    IF RevEq(r, rend(b)) \/ fuel = 0 THEN <<>>
    ELSE <<IterDec(r.current).pos>> \o RevWalkCellsFrom(b, RevInc(r), fuel - 1)

RevWalkCells(b) == RevWalkCellsFrom(b, rbegin(b), N + 1)

\* it = begin(); ++it n times
RECURSIVE Advance(_, _)
Advance(it, n) == IF n = 0 THEN it ELSE Advance(IterInc(it), n - 1)

\* it = end(); --it n times
RECURSIVE Retreat(_, _)
Retreat(it, n) == IF n = 0 THEN it ELSE Retreat(IterDec(it), n - 1)

\* copy_range(buffer, first, last): _buffer[i]._value = (buffer + i)->_value
RECURSIVE copy_range(_, _, _, _)
copy_range(dst, src, first, last) ==
    IF first < last
    THEN copy_range(Wr(dst, first, Rd(src, first)), src, SzAdd(first, 1), last)
    ELSE dst

\* copy_buffer(buffer), after _head, _tail, _size were taken from the source
copy_buffer(dst, src) ==
    IF dst.size = N THEN copy_range(dst, src, 0, N)
    ELSE IF dst.head > dst.tail
    THEN copy_range(dst, src, dst.tail, SzAdd(dst.head, 1))
    ELSE copy_range(dst, src, dst.head, SzAdd(dst.tail, 1))

\* move_range(buffer, first, last): _buffer[i]._value = std::move(...); the
\* source cell keeps whatever T's move assignment leaves (jf), and its element
\* stays as live as it was. The pair of both objects is returned.
RECURSIVE move_range(_, _, _, _, _)
move_range(dst, src, first, last, jf) ==
    IF first < last
    THEN move_range(Wr(dst, first, Rd(src, first)),
                    [Wr(src, first, JunkAt(jf, first))
                        EXCEPT !.live = src.live],
                    SzAdd(first, 1), last, jf)
    ELSE [dst |-> dst, src |-> src]

\* move_buffer(buffer)
move_buffer(dst, src, jf) ==
    IF dst.size = N THEN move_range(dst, src, 0, N, jf)
    ELSE IF dst.head > dst.tail
    THEN move_range(dst, src, dst.tail, SzAdd(dst.head, 1), jf)
    ELSE move_range(dst, src, dst.head, SzAdd(dst.tail, 1), jf)

\* circular_buffer(const circular_buffer& other)
copy_ctor(id, mem, src) ==
    copy_buffer([id |-> id, state |-> "alive", head |-> src.head,
                 tail |-> src.tail, size |-> src.size, buffer |-> mem,
                 ub |-> FALSE, live |-> {}, fault |-> {}], src)

\* operator=(const circular_buffer& other)
copy_assign(dst, src) ==
    copy_buffer([dst EXCEPT !.head = src.head, !.tail = src.tail,
                            !.size = src.size], src)

\* circular_buffer(circular_buffer&& other)
move_ctor(id, mem, src, jf) ==
    move_buffer([id |-> id, state |-> "alive", head |-> src.head,
                 tail |-> src.tail, size |-> src.size, buffer |-> mem,
                 ub |-> FALSE, live |-> {}, fault |-> {}], src, jf)

\* operator=(circular_buffer&& other)
move_assign(dst, src, jf) ==
    move_buffer([dst EXCEPT !.head = src.head, !.tail = src.tail,
                            !.size = src.size], src, jf)

\* the reference bounded deque: a push on a full deque first drops the
\* element at the opposite end
RefPushBack(d, v) == IF Len(d) >= N THEN Append(Tail(d), v) ELSE Append(d, v)
RefPushFront(d, v) ==
    IF Len(d) >= N THEN <<v>> \o SubSeq(d, 1, Len(d) - 1) ELSE <<v>> \o d
RefPopBack(d) == SubSeq(d, 1, Len(d) - 1)
RefPopFront(d) == Tail(d)

SeqsUpTo(n) == UNION {[1..k -> Values] : k \in 0..n}

Min(a, b) == IF a < b THEN a ELSE b

\* cb as a constructor left it, and the start of the recorded history
Made(b, name, a, d, k) ==
    /\ cb = b
    /\ op = (IF rec THEN name ELSE "-")
    /\ arg = (IF rec THEN a ELSE <<>>)
    /\ deque = (IF rec THEN d ELSE <<>>)
    /\ npush = (IF rec THEN k ELSE 0)

\* The state after construction: one of the four constructors has run on
\* fresh storage (or thrown).
InitRec(r, t) ==
    \E n \in Capacities :
        /\ N = n
        /\ rec = r
        /\ track = t
        /\ wild \in Values
        /\ other = NoObject
        /\ \E mem \in [0..(n - 1) -> Values] :
            \/ Made(ctor_default("cb", mem), "ctor_default", <<>>, <<>>, 0)
            \/ \E count \in 0..(n + Over), value \in Values :
                Made(ctor_count("cb", mem, count, value), "ctor_count",
                     <<count, value>>, [i \in 1..count |-> value], n + 1)
            \/ \E rng \in SeqsUpTo(n + Over) :
                Made(ctor_range("cb", mem, rng), "ctor_range", rng, rng, n + 1)
            \/ \E init \in SeqsUpTo(n + Over) :
                Made(ctor_init("cb", mem, init), "ctor_init", init, init, n + 1)

Init == InitRec(TRUE, FALSE)

InitCopy == InitRec(FALSE, FALSE)

\* the same with the lifetimes of the elements recorded
InitAssign == InitRec(FALSE, TRUE)

\* circular_buffer<T, N> cb; on fresh storage
InitDefault(t) ==
    \E n \in Capacities :
        /\ N = n
        /\ rec = TRUE
        /\ track = t
        /\ wild \in Values
        /\ other = NoObject
        /\ \E mem \in [0..(n - 1) -> Values] :
            Made(ctor_default("cb", mem), "ctor_default", <<>>, <<>>, 0)

\* An operation is called on cb: the object exists, nothing outside its array
\* was written, and the temporary other has gone out of scope.
Usable == cb.state = "alive" /\ ~cb.ub /\ other.state = "none"

\* a member function is entered on b: nothing has gone wrong in this call yet
Call(b) == [b EXCEPT !.fault = {}]

Step(name, a, b, d, k) ==
    /\ cb' = b
    /\ op' = (IF rec THEN name ELSE "-")
    /\ arg' = (IF rec THEN a ELSE <<>>)
    /\ deque' = (IF rec THEN d ELSE <<>>)
    /\ npush' = (IF rec THEN k ELSE 0)
    /\ UNCHANGED <<N, wild, other, rec, track>>

PushBack ==
    /\ Usable
    /\ \E v \in Values :
        Step("push_back", <<v>>, push_back(Call(cb), v), RefPushBack(deque, v),
             Min(npush + 1, N + 1))

PushFront ==
    /\ Usable
    /\ \E v \in Values :
        Step("push_front", <<v>>, push_front(Call(cb), v), RefPushFront(deque, v),
             Min(npush + 1, N + 1))

EmplaceBack ==
    /\ Usable
    /\ \E v \in Values, j \in Values :
        Step("emplace_back", <<v>>, emplace_back(Call(cb), v, j),
             RefPushBack(deque, v), N + 1)

EmplaceFront ==
    /\ Usable
    /\ \E v \in Values, j \in Values :
        Step("emplace_front", <<v>>, emplace_front(Call(cb), v, j),
             RefPushFront(deque, v), N + 1)

\* pop_back and pop_front are only called on a non-empty buffer
PopBack ==
    /\ Usable
    /\ ~empty(cb)
    /\ \E j \in Values :
        Step("pop_back", <<>>, pop_back(Call(cb), j), RefPopBack(deque), N + 1)

PopFront ==
    /\ Usable
    /\ ~empty(cb)
    /\ \E j \in Values :
        Step("pop_front", <<>>, pop_front(Call(cb), j), RefPopFront(deque), N + 1)

Clear ==
    /\ Usable
    /\ \E jf \in [Cells -> Values] :
        Step("clear", <<>>, clear(Call(cb), jf), <<>>, N + 1)

CopyStep(name, o, src) ==
    /\ other' = o
    /\ cb' = src
    /\ op' = name
    /\ arg' = <<>>
    /\ UNCHANGED <<N, wild, deque, npush, rec, track>>

\* circular_buffer other(cb);
CopyConstruct ==
    /\ Usable
    /\ \E mem \in [Cells -> Values] :
        CopyStep("copy_ctor", copy_ctor("other", mem, cb), cb)

\* circular_buffer other(std::move(cb)); a moved cell of cb keeps what the move
\* left there and an unmoved cell of other what the fresh storage held: one
\* choice per cell index covers both, as no cell is both.
MoveConstruct ==
    /\ Usable
    /\ \E mem \in [Cells -> Values] :
        LET r == move_ctor("other", mem, Call(cb), mem)
        IN  CopyStep("move_ctor", r.dst, r.src)

\* other = cb; on an object other that exists
CopyAssign ==
    /\ cb.state = "alive" /\ ~cb.ub
    /\ other.state = "alive" /\ ~other.ub
    /\ CopyStep("copy_assign", copy_assign(Call(other), cb), cb)

\* other = std::move(cb);
MoveAssign ==
    /\ cb.state = "alive" /\ ~cb.ub
    /\ other.state = "alive" /\ ~other.ub
    /\ \E jf \in [Cells -> Values] :
        LET r == move_assign(Call(other), Call(cb), jf)
        IN  CopyStep("move_assign", r.dst, r.src)

\* ~circular_buffer(): implicit. It runs ~optional_storage() on each cell,
\* which is defaulted in a union and so runs no destructor of T.
dtor(b) == [b EXCEPT !.state = "none"]

\* other goes out of scope: its destructor runs and its storage is released
Drop ==
    /\ other.state # "none"
    /\ other' = [NoObject EXCEPT !.state = dtor(other).state]
    /\ op' = (IF rec THEN op ELSE "-")
    /\ UNCHANGED <<N, wild, cb, arg, deque, npush, rec, track>>

Next ==
    \/ PushBack
    \/ PushFront
    \/ EmplaceBack
    \/ EmplaceFront
    \/ PopBack
    \/ PopFront
    \/ Clear

Spec == Init /\ [][Next]_vars

NextCopy ==
    \/ Next
    \/ CopyConstruct
    \/ MoveConstruct
    \/ CopyAssign
    \/ MoveAssign
    \/ Drop

SpecCopy == InitCopy /\ [][NextCopy]_vars

\* a default-constructed buffer driven by push_back, push_front, pop_back,
\* pop_front and clear only
NextDeque ==
    \/ PushBack
    \/ PushFront
    \/ PopBack
    \/ PopFront
    \/ Clear

SpecDeque == InitDefault(FALSE) /\ [][NextDeque]_vars

\* a default-constructed buffer driven by emplace_back, emplace_front,
\* pop_back, pop_front and clear only
NextEmplace ==
    \/ EmplaceBack
    \/ EmplaceFront
    \/ PopBack
    \/ PopFront
    \/ Clear

SpecEmplace == InitDefault(TRUE) /\ [][NextEmplace]_vars

\* circular_buffer other(count, value); with count <= N, next to cb
MakeOther ==
    /\ Usable
    /\ \E mem \in [Cells -> Values], count \in 0..N, value \in Values :
        CopyStep("ctor_other", ctor_count("other", mem, count, value), cb)

\* a buffer as constructed, a second one constructed next to it, and
\* assignments of the first to the second
NextAssign ==
    \/ MakeOther
    \/ CopyAssign
    \/ MoveAssign
    \/ Drop

SpecAssign == InitAssign /\ [][NextAssign]_vars

----------------------------------------------------------------------------
\* The states the properties speak about: cb exists and has not written
\* outside its array.
Defined == cb.state = "alive" /\ ~cb.ub

\* C1: from a default-constructed buffer, after k <= N calls of push_back and
\* push_front, size() is k and begin()..end() yields the pushed values in
\* deque order.
C1PushOrder ==
    (Defined /\ npush <= N) => (size(cb) = npush /\ Walk(cb) = deque)

\* the same for capacities of at least two
C1PushOrderFrom2 ==
    (Defined /\ npush <= N /\ N >= 2) => (size(cb) = npush /\ Walk(cb) = deque)

\* C2: push_back(v) on a full buffer leaves size() == N, drops exactly the
\* front element, keeps the others in order and makes v the last element;
\* push_front(v) on a full buffer drops the back element and makes v the first.
C2FullPush ==
    [][(Defined /\ full(cb) /\ cb'.state = "alive" /\ ~cb'.ub)
        => /\ op' = "push_back"
              => /\ size(cb') = N
                 /\ Walk(cb') = Append(Tail(Walk(cb)), arg'[1])
           /\ op' = "push_front"
              => /\ size(cb') = N
                 /\ Walk(cb') = <<arg'[1]>> \o SubSeq(Walk(cb), 1, N - 1)]_vars

\* the fields and the elements met from begin() to end() agree
SameObs(a, b) ==
    a.size = b.size /\ a.head = b.head /\ a.tail = b.tail /\ Walk(a) = Walk(b)

\* C3: on a non-full buffer, push_back(x) followed at once by pop_back()
\* restores size(), head, tail and the elements in iteration order; likewise
\* push_front(x) followed by pop_front().
C3PushPop ==
    [][(Defined /\ ~full(cb))
        => /\ op' = "push_back"
              => \A j \in Values : SameObs(pop_back(cb', j), cb)
           /\ op' = "push_front"
              => \A j \in Values : SameObs(pop_front(cb', j), cb)]_vars

\* increment applied n times
RECURSIVE IncTimes(_, _)
IncTimes(i, n) == IF n = 0 THEN i ELSE IncTimes(increment(i), n - 1)

\* the head/tail/size relation of the data model
HeadTailRel(b) ==
    IF b.size = 0 THEN b.head = increment(b.tail)
    ELSE IncTimes(b.head, b.size) = increment(b.tail)

WellFormed(b) ==
    b.head \in Cells /\ b.tail \in Cells /\ b.size <= N /\ HeadTailRel(b)

\* C2 and C3 on the states that satisfy the head/tail/size relation
C2OnWellFormed ==
    [][(Defined /\ full(cb) /\ WellFormed(cb))
        => /\ op' = "push_back"
              => /\ size(cb') = N
                 /\ Walk(cb') = Append(Tail(Walk(cb)), arg'[1])
           /\ op' = "push_front"
              => /\ size(cb') = N
                 /\ Walk(cb') = <<arg'[1]>> \o SubSeq(Walk(cb), 1, N - 1)]_vars

C3OnWellFormed ==
    [][(Defined /\ ~full(cb) /\ WellFormed(cb))
        => /\ op' = "push_back"
              => \A j \in Values : SameObs(pop_back(cb', j), cb)
           /\ op' = "push_front"
              => \A j \in Values : SameObs(pop_front(cb', j), cb)]_vars

\* C5: advancing begin() size() times gives end(), and retreating end()
\* size() times gives begin().
C5AdvanceRetreat ==
    Defined => /\ IterEq(Advance(begin(cb), size(cb)), end(cb))
               /\ IterEq(Retreat(end(cb), size(cb)), begin(cb))

C5OnWellFormed ==
    (Defined /\ WellFormed(cb))
        => /\ IterEq(Advance(begin(cb), size(cb)), end(cb))
           /\ IterEq(Retreat(end(cb), size(cb)), begin(cb))

\* C6: begin() == end() exactly when empty().
C6BeginEndEmpty ==
    Defined => (IterEq(begin(cb), end(cb)) <=> empty(cb))

C6Witness ==
    /\ Defined /\ full(cb) /\ N >= 2 /\ op = "push_back"
    /\ begin(cb).pos = end(cb).pos
    /\ ~IterEq(begin(cb), end(cb))

\* the occupied cells from head on, in order
Occupied(b) == [i \in 1..b.size |-> (b.head + i - 1) % N]

Reverse(s) == [i \in 1..Len(s) |-> s[Len(s) + 1 - i]]

\* C7: on a non-empty buffer the loop from rbegin() to rend() ends after
\* size() steps and dereferences the occupied cells from tail back to head,
\* and no other cell.
C7ReverseOrder ==
    (Defined /\ ~empty(cb))
        => /\ RevWalkCells(cb) = Reverse(Occupied(cb))
           /\ RevWalk(cb) = Reverse(Walk(cb))

\* C8: if size == 0 then head == increment(tail), else increment applied
\* size times to head gives increment(tail).
C8HeadTailSize == Defined => HeadTailRel(cb)

\* C9: a constructor fails (std::out_of_range, no object) exactly when it is
\* given more than N initial elements: count > N, a range of more than N
\* elements, an initializer list of more than N entries.
C9CtorThrows ==
    /\ op = "ctor_default" => cb.state = "alive"
    /\ op = "ctor_count" => (cb.state = "thrown" <=> arg[1] > N)
    /\ op = "ctor_range" => (cb.state = "thrown" <=> Len(arg) > N)
    /\ op = "ctor_init" => (cb.state = "thrown" <=> Len(arg) > N)
    /\ cb.state = "thrown" => ~Usable

C9Witness ==
    op = "ctor_range" /\ N >= 2 /\ Len(arg) = N + 1 /\ cb.state = "thrown"

\* C10: after clear() the buffer is as a default-constructed one: size() == 0,
\* empty(), not full(), head == 1, tail == 0, begin() == end(), and its fields
\* are those of a fresh buffer on the same storage, so every later operation
\* behaves as on a fresh buffer.
C10ClearFresh ==
    op = "clear"
        => /\ size(cb) = 0 /\ empty(cb) /\ ~full(cb)
           /\ cb.head = 1 /\ cb.tail = 0
           /\ IterEq(begin(cb), end(cb))
           /\ [cb EXCEPT !.ub = FALSE, !.live = {}, !.fault = {}]
                  = ctor_default("cb", cb.buffer)

C10Witness ==
    op = "clear" /\ Defined /\ N >= 3 /\ empty(cb) /\ cb.head = 1 /\ cb.tail = 0

CopyOps == {"copy_ctor", "copy_assign", "move_ctor", "move_assign"}

\* copy and move give a buffer whose begin()..end() yields the values the
\* source had, for every source
C4AnySource ==
    [][(Defined /\ op' \in CopyOps /\ other'.state = "alive")
        => Walk(other') = Walk(cb)]_vars

\* C4: copy construction, copy assignment, move construction and move
\* assignment give a buffer whose begin()..end() yields the values the source
\* had, in the same order (stated for the sources that satisfy the
\* head/tail/size relation: empty, contiguous, wrapped or full).
C4CopySame ==
    [][(Defined /\ WellFormed(cb) /\ op' \in CopyOps /\ other'.state = "alive")
        => Walk(other') = Walk(cb)]_vars

\* the occupied range of the data model: none when empty, all N cells when
\* full, head..tail, or head..N-1 and 0..tail when wrapped
OccSet(b) ==
    IF b.size = 0 THEN {}
    ELSE IF b.size = N THEN Cells
    ELSE IF b.head <= b.tail THEN {i \in Cells : b.head <= i /\ i <= b.tail}
    ELSE {i \in Cells : b.head <= i \/ i <= b.tail}

\* C11: when a buffer goes out of scope exactly its live elements are
\* destroyed, each occupied cell once and no cell outside the occupied range,
\* so that no element constructed over its lifetime is left undestroyed.
C11ScopeExit ==
    [][(other.state = "alive" /\ ~other.ub /\ other'.state = "none")
        => dtor(other).live = {}]_vars

\* C12: with pop_back and pop_front called on non-empty buffers only,
\* 0 <= size() <= N in every state, so no push or emplace makes size() exceed
\* N, and size() == max_size() exactly when full().
C12SizeBound ==
    Defined => /\ size(cb) \in 0..N
               /\ size(cb) = max_size(cb) <=> full(cb)

C12Witness ==
    /\ Defined /\ N >= 2 /\ op \in {"push_back", "emplace_front"}
    /\ Len(deque) = N /\ size(cb) = N /\ full(cb)

\* the cells first..last-1 that copy_range and move_range go through
RangeCells(first, last) == {i \in 0..(SizeMod - 1) : first <= i /\ i < last}

\* the cells copy_buffer and move_buffer read in the source and write in the
\* destination, for a source with the fields of b
copy_cells(b) ==
    IF b.size = N THEN RangeCells(0, N)
    ELSE IF b.head > b.tail THEN RangeCells(b.tail, SzAdd(b.head, 1))
    ELSE RangeCells(b.head, SzAdd(b.tail, 1))

C14Refines ==
    (Defined /\ N >= 2) => (size(cb) = Len(deque) /\ Walk(cb) = deque)

C14Witness ==
    /\ Defined /\ N >= 3 /\ op = "pop_front" /\ cb.head > cb.tail
    /\ size(cb) = N - 1 /\ Walk(cb) = deque

\* C15: for every capacity N >= 1, in every reachable state with size() > 0,
\* head and tail are indices in 0..N-1, so that front(), back(), the writes
\* of push and emplace and the dereferences of iterators stay inside the
\* array.
C15ValidIndices ==
    (Defined /\ size(cb) > 0) => (cb.head \in Cells /\ cb.tail \in Cells)

\* the same for the buffers that were default-constructed with N >= 2
C15DefaultFrom2 ==
    (Defined /\ N >= 2 /\ size(cb) > 0)
        => (cb.head \in Cells /\ cb.tail \in Cells)

ModOps ==
    {"push_back", "push_front", "emplace_back", "emplace_front", "pop_back",
     "pop_front"}

\* C16: each of push_back, push_front, emplace_back, emplace_front, pop_back
\* and pop_front (the pops on a non-empty buffer) preserves the head/tail/size
\* relation: if before the call head and tail are in 0..N-1, size <= N and
\* head advanced size times is increment(tail), the same holds after it.
C16Preserves ==
    [][(Defined /\ WellFormed(cb) /\ op' \in ModOps)
        => (~cb'.ub /\ WellFormed(cb'))]_vars

C16Witness ==
    /\ Defined /\ N >= 3 /\ op = "emplace_front" /\ WellFormed(cb)
    /\ cb.head > cb.tail /\ full(cb)

\* C17: driven from the default-constructed state by emplace_back,
\* emplace_front, pop_back, pop_front and clear only, lifetimes are exact:
\* each placement construction targets a cell with no live element, each
\* destroy targets a cell with a live element (on a full buffer emplace
\* destroys the evicted element before it constructs), the live cells are the
\* occupied range, and constructions minus destructions is size().
C17Lifetimes ==
    cb.state = "alive"
        => /\ cb.fault = {} /\ ~cb.ub
           /\ cb.live = OccSet(cb)
           /\ Cardinality(cb.live) = size(cb)

\* the same for capacities of at least two
C17From2 ==
    (cb.state = "alive" /\ N >= 2)
        => /\ cb.fault = {} /\ ~cb.ub
           /\ cb.live = OccSet(cb)
           /\ Cardinality(cb.live) = size(cb)

\* C18: copy assignment and move assignment onto a destination that holds
\* live elements skip no destruction: every cell of the destination that held
\* a live element before the assignment and lies outside its occupied range
\* after it has been destroyed.
C18AssignDestroys ==
    [][(/\ op' \in {"copy_assign", "move_assign"}
        /\ Defined /\ WellFormed(cb)
        /\ other.state = "alive" /\ other.live # {} /\ ~other'.ub)
        => \A i \in other.live :
              i \notin OccSet(other') => i \notin other'.live]_vars

\* the iterators begin(), ++begin(), ... of b, N + 1 of them, and end()
SomeIters(b) == {Advance(begin(b), k) : k \in 0..N} \cup {end(b)}

\* C19: on a full buffer, for every N >= 1, begin() and end() stand at the
\* same physical position and still compare unequal (remaining count N
\* against 0); two iterators are equal only when storage, position and
\* remaining count all match.
C19FullBeginEnd ==
    (Defined /\ full(cb))
        => /\ begin(cb).pos = end(cb).pos
           /\ begin(cb).left_in_forward = N /\ end(cb).left_in_forward = 0
           /\ ~IterEq(begin(cb), end(cb))
           /\ \A a \in SomeIters(cb), b \in SomeIters(cb) :
                 IterEq(a, b) => a = b

\* the same on the states that satisfy the head/tail/size relation
C19OnWellFormed ==
    (Defined /\ full(cb) /\ WellFormed(cb))
        => /\ begin(cb).pos = end(cb).pos
           /\ begin(cb).left_in_forward = N /\ end(cb).left_in_forward = 0
           /\ ~IterEq(begin(cb), end(cb))
           /\ \A a \in SomeIters(cb), b \in SomeIters(cb) :
                 IterEq(a, b) => a = b

\* C20: a pre-filling constructor that succeeds leaves the elements in order
\* from index 0: the count constructor with count <= N gives size() == count
\* and count copies of the value; the range and the initializer-list
\* constructor with k <= N elements give size() == k, head == 0 and
\* tail == k - 1 for k >= 1, and begin()..end() yields the input.
C20CtorFill ==
    cb.state = "alive"
        => /\ op = "ctor_count"
              => /\ size(cb) = arg[1]
                 /\ Walk(cb) = [i \in 1..arg[1] |-> arg[2]]
                 /\ WalkCells(cb) = [i \in 1..arg[1] |-> i - 1]
           /\ op \in {"ctor_range", "ctor_init"}
              => /\ size(cb) = Len(arg)
                 /\ Len(arg) >= 1
                    => (cb.head = 0 /\ cb.tail = Len(arg) - 1)
                 /\ Walk(cb) = arg
                 /\ WalkCells(cb) = [i \in 1..Len(arg) |-> i - 1]

C20Witness ==
    /\ Defined /\ N >= 3 /\ op = "ctor_range" /\ Len(arg) = N
    /\ arg[1] # arg[N] /\ Walk(cb) = arg

MoveOps == {"move_ctor", "move_assign"}

\* C21: move construction and move assignment leave head, tail and size of
\* the source unchanged: after the move the source reports its old size() and
\* the same begin() and end() positions, and only the values in the cells
\* that were moved from may differ; nothing outside the arrays is touched.
C21MoveFrame ==
    [][(Defined /\ op' \in MoveOps)
        => /\ ~cb'.ub /\ ~other'.ub
           /\ cb'.state = "alive"
           /\ cb'.head = cb.head /\ cb'.tail = cb.tail /\ cb'.size = cb.size
           /\ size(cb') = size(cb)
           /\ begin(cb') = begin(cb) /\ end(cb') = end(cb)
           /\ \A i \in Cells \ copy_cells(cb) :
                 cb'.buffer[i] = cb.buffer[i]]_vars

\* the same for the sources that satisfy the head/tail/size relation
C21OnWellFormed ==
    [][(Defined /\ WellFormed(cb) /\ op' \in MoveOps)
        => /\ ~cb'.ub /\ ~other'.ub
           /\ cb'.state = "alive"
           /\ cb'.head = cb.head /\ cb'.tail = cb.tail /\ cb'.size = cb.size
           /\ size(cb') = size(cb)
           /\ begin(cb') = begin(cb) /\ end(cb') = end(cb)
           /\ \A i \in Cells \ copy_cells(cb) :
                 cb'.buffer[i] = cb.buffer[i]]_vars

====
